---- MODULE Spec2Model ----
\* A model of src/main.js: the main script, sendEmails, the three recipient
\* readers and sendEmail, as one state machine of the Node.js event loop.
\*
\* Addresses, file data and paths are sequences of one-character strings (so
\* that trim, split and extname are computed, not assumed); message texts are
\* TLA+ strings joined with \o, as the template literals of sendEmail join them.
EXTENDS Integers, Sequences, FiniteSets, TLC

\* ------------------------------------------------------------------ bounds

\* Longest address string (argv.email, a csv/json email value).
MaxStrLen == 1
\* Longest content of a .txt recipient file, in characters.
MaxFileLen == 5
\* Most rows of a .csv file / elements of a .json array.
MaxRows == 2

\* ------------------------------------------------------------ JS values

\* undefined / null for TLA+-string valued options and fields.
Undefined == "<undefined>"
Null == "<null>"
\* undefined for values that are character sequences (addresses, paths).
UndefS == <<"<undefined>">>

\* JS truthiness of a string-or-undefined value: '' , undefined, null are falsy.
Truthy(v) == v \notin {Undefined, Null, ""}
TruthyS(v) == v # UndefS /\ v # <<>>

\* a || b
OrElse(a, b) == IF Truthy(a) THEN a ELSE b

NL == "\n"
Chars == {"a", " "}
IsSpace(c) == c \in {" ", NL}

RECURSIVE StrsUpTo(_, _)
StrsUpTo(alphabet, n) ==
  IF n = 0 THEN {<<>>}
  ELSE LET shorter == StrsUpTo(alphabet, n - 1)
       IN shorter \cup {Append(s, c) : s \in shorter, c \in alphabet}

RECURSIVE SeqsUpTo(_, _)
SeqsUpTo(S, n) ==
  IF n = 0 THEN {<<>>}
  ELSE LET shorter == SeqsUpTo(S, n - 1)
       IN shorter \cup {Append(s, x) : s \in shorter, x \in S}

SetMin(S) == CHOOSE x \in S : \A y \in S : x <= y
SetMax(S) == CHOOSE x \in S : \A y \in S : x >= y

\* String.prototype.trim
Trim(s) ==
  LET solid == {k \in 1..Len(s) : ~IsSpace(s[k])}
  IN IF solid = {} THEN <<>> ELSE SubSeq(s, SetMin(solid), SetMax(solid))

\* String.prototype.split('\n')
RECURSIVE SplitLines(_)
SplitLines(s) ==
  LET breaks == {k \in 1..Len(s) : s[k] = NL}
  IN IF breaks = {} THEN <<s>>
     ELSE LET k == SetMin(breaks)
          IN <<SubSeq(s, 1, k - 1)>> \o SplitLines(SubSeq(s, k + 1, Len(s)))

\* An extname that takes any last '.' of the last segment, also a leading one
\* (so that '.txt' has the extension '.txt').
ExtNameAnyDot(p) ==
  LET slashes == {k \in 1..Len(p) : p[k] = "/"}
      start == IF slashes = {} THEN 1 ELSE SetMax(slashes) + 1
      dots == {k \in start..Len(p) : p[k] = "."}
  IN IF dots = {} THEN <<>> ELSE SubSeq(p, SetMax(dots), Len(p))

\* path.extname: from the last '.' of the last path segment to the end; ''
\* when there is none or when it is the segment's first character.
ExtName(p) ==
  LET slashes == {k \in 1..Len(p) : p[k] = "/"}
      start == IF slashes = {} THEN 1 ELSE SetMax(slashes) + 1
      dots == {k \in (start + 1)..Len(p) : p[k] = "."}
  IN IF dots = {} THEN <<>> ELSE SubSeq(p, SetMax(dots), Len(p))

ExtTxt == <<".", "t", "x", "t">>
ExtCsv == <<".", "c", "s", "v">>
ExtJson == <<".", "j", "s", "o", "n">>

\* ------------------------------------------------------- the three parsers

\* readEmailsFromTxt, the success branch: split on '\n', keep the lines whose
\* trim is non-empty (the kept lines themselves are not trimmed here).
ParseTxt(data) == SelectSeq(SplitLines(data), LAMBDA line : TruthyS(Trim(line)))

\* readEmailsFromCsv, the 'data' handler over the rows csv-parser emits: a row
\* is pushed, trimmed, when row.email is truthy.
RECURSIVE ParseCsv(_)
ParseCsv(rows) ==
  IF rows = <<>> THEN <<>>
  ELSE (IF TruthyS(Head(rows).email) THEN <<Trim(Head(rows).email)>> ELSE <<>>)
       \o ParseCsv(Tail(rows))

\* readEmailsFromJson, the try block over the value JSON.parse gives:
\* .map(r => r.email.trim()) throws when the value is no array or an element
\* has no email; .filter(Boolean) then drops the empty strings.
JsonThrows(doc) ==
  \/ doc.kind # "array"
  \/ \E k \in 1..Len(doc.items) : doc.items[k].email = UndefS

ParseJson(doc) ==
  SelectSeq([k \in 1..Len(doc.items) |-> Trim(doc.items[k].email)],
            LAMBDA e : TruthyS(e))

\* ------------------------------------------------------------ sendEmail

EnvUser == "user@x"

\* sendEmail with both bodies always assigned (the isHtml ? ... : null guards
\* of lines 183-184 and 195-196 lost).
MailBodyBothBodies(opts, customMessage, isHtml) ==
  IF Truthy(opts.link)
  THEN LET displayText == OrElse(opts.linkText, opts.link)
           linkMessage ==
             IF isHtml
             THEN "<p>" \o customMessage \o "</p><p>Link: <a href=\"" \o opts.link
                  \o "\">" \o displayText \o "</a></p>"
             ELSE customMessage \o "\nLink: " \o opts.link
       IN [html |-> linkMessage, text |-> linkMessage]
  ELSE [text |-> customMessage, html |-> customMessage]

\* sendEmail with displayText taken from --link-text alone (the || argv.link
\* of line 190 lost).
MailBodyNoDefaultText(opts, customMessage, isHtml) ==
  IF Truthy(opts.link)
  THEN LET displayText == opts.linkText
           linkMessage ==
             IF isHtml
             THEN "<p>" \o customMessage \o "</p><p>Link: <a href=\"" \o opts.link
                  \o "\">" \o displayText \o "</a></p>"
             ELSE customMessage \o "\nLink: " \o opts.link
       IN [html |-> IF isHtml THEN linkMessage ELSE Null,
           text |-> IF isHtml THEN Null ELSE linkMessage]
  ELSE [text |-> IF isHtml THEN Null ELSE customMessage,
        html |-> IF isHtml THEN customMessage ELSE Null]

\* sendEmail lines 179-204: the mailOptions handed to transporter.sendMail.
MailBody(opts, customMessage, isHtml) ==
  IF Truthy(opts.link)
  THEN LET displayText == OrElse(opts.linkText, opts.link)
           linkMessage ==
             IF isHtml
             THEN "<p>" \o customMessage \o "</p><p>Link: <a href=\"" \o opts.link
                  \o "\">" \o displayText \o "</a></p>"
             ELSE customMessage \o "\nLink: " \o opts.link
       IN [html |-> IF isHtml THEN linkMessage ELSE Null,
           text |-> IF isHtml THEN Null ELSE linkMessage]
  ELSE [text |-> IF isHtml THEN Null ELSE customMessage,
        html |-> IF isHtml THEN customMessage ELSE Null]

MailOptions(opts, to, subject, customMessage, isHtml) ==
  LET body == MailBody(opts, customMessage, isHtml)
  IN [from |-> OrElse(opts.spoofName, "Sender") \o " <" \o EnvUser \o ">",
      to |-> to,
      subject |-> subject,
      text |-> body.text,
      html |-> body.html,
      attachments |-> IF Truthy(opts.attachment) THEN <<opts.attachment>> ELSE <<>>]

\* ------------------------------------------------------------- inputs

Strs == StrsUpTo(Chars, MaxStrLen)

\* argv.targets values: r.txt, r.csv, r.json, r.xml, r (no extension),
\* .txt (a dot-file: no extension), d.txt/r (the dot is in a directory name).
TargetPaths ==
  { <<"r">> \o ExtTxt, <<"r">> \o ExtCsv, <<"r">> \o ExtJson,
    <<"r", ".", "x", "m", "l">>, <<"r">>, ExtTxt, <<"d">> \o ExtTxt \o <<"/", "r">> }

BaseArgv ==
  [email |-> <<"a">>, targets |-> UndefS, subject |-> "S", m |-> "Hi",
   messageFile |-> Undefined, spoofName |-> Undefined, type |-> "text",
   link |-> Undefined, linkText |-> Undefined, attachment |-> Undefined]

\* Every message configuration, with one literal recipient. yargs rejects
\* -m together with --message-file (line 72), so at most one of them is set.
MessageArgvs ==
  { [BaseArgv EXCEPT !.m = src[1], !.messageFile = src[2], !.spoofName = sn,
                     !.type = ty, !.link = ln, !.linkText = lt, !.attachment = at] :
      src \in {<<"Hi", Undefined>>, <<"", Undefined>>, <<Undefined, "m.html">>,
               <<Undefined, Undefined>>},
      sn \in {Undefined, "Boss"},
      ty \in {"html", "text"},
      ln \in {Undefined, "https://x.com"},
      lt \in {Undefined, "", "here"},
      at \in {Undefined, "a.pdf"} }

\* Every recipient source, with one message configuration. yargs rejects
\* --email together with --targets (line 71); neither is demanded.
SourceArgvs ==
  { [BaseArgv EXCEPT !.email = e] : e \in Strs }
  \cup { [BaseArgv EXCEPT !.email = UndefS, !.targets = t] : t \in TargetPaths \cup {UndefS} }

ArgvSet == MessageArgvs \cup SourceArgvs

\* What fs.readFile may deliver for the message file.
MessageFileContents == {"", "Yo"}

\* What fs.readFile may deliver for a .txt recipient file.
TxtData == StrsUpTo(Chars \cup {NL}, MaxFileLen)

\* The rows csv-parser may emit: row.email is a string, or undefined when the
\* file has no such column.
CsvRow == {[email |-> e] : e \in Strs \cup {UndefS}}
CsvRows == SeqsUpTo(CsvRow, MaxRows)

\* What JSON.parse may give: a SyntaxError, a value that is no array, or an
\* array of objects whose email is a string or is missing.
JsonItem == {[email |-> e] : e \in Strs \cup {UndefS}}
JsonDocs ==
  { [kind |-> k, items |-> <<>>] : k \in {"syntaxError", "object"} }
  \cup { [kind |-> "array", items |-> its] : its \in SeqsUpTo(JsonItem, MaxRows) }

\* --------------------------------------------------------------- state

VARIABLES
  argv,          \* the parsed command line (lines 12-75)
  pc,            \* where the main script / sendEmails stands
  message,       \* the message passed to sendEmails
  recipients,    \* sendEmails' local recipients
  i,             \* position of the for-of loop of line 117 (1-based)
  attempts,      \* the transporter.sendMail calls made so far, in call order
  log,           \* console output, in order
  timerPending,  \* the setTimeout of line 119 is armed
  input,         \* history: what the recipient file's reader was given, kept until
                 \* the loop takes its first step (the readers' locals are gone then)
  rejection,     \* what sendEmails' promise rejected with, Null while it has not
  delayFired,    \* history: a line-119 timer has fired since the last sendMail call
  cancelRequested \* the user has asked for the run to be cancelled; main.js never reads it

vars ==
  <<argv, pc, message, recipients, i, attempts, log, timerPending, input, rejection,
    delayFired, cancelRequested>>

isHtml == argv.type = "html"

Line(kind, to) == [kind |-> kind, to |-> to]

NoInput == [kind |-> "none", value |-> <<>>]
Input(kind, value) == [kind |-> kind, value |-> value]

Init ==
  /\ argv \in ArgvSet
  /\ pc = "main"
  /\ message = Null
  /\ recipients = <<>>
  /\ i = 1
  /\ attempts = <<>>
  /\ log = <<>>
  /\ timerPending = FALSE
  /\ input = NoInput
  /\ rejection = Null
  /\ delayFired = FALSE
  /\ cancelRequested = FALSE

\* ----------------------------------------------------- main script 214-236

\* lines 215-220: message = argv.m || null is truthy.
MainMessage ==
  /\ pc = "main"
  /\ Truthy(OrElse(argv.m, Null))
  /\ message' = OrElse(argv.m, Null)
  /\ pc' = "sendEmails"
  /\ UNCHANGED <<argv, input, recipients, i, attempts,
                 log, timerPending, rejection, delayFired, cancelRequested>>

\* lines 221-224: no message, a message file: fs.readFile is started.
MainMessageFile ==
  /\ pc = "main"
  /\ ~Truthy(OrElse(argv.m, Null))
  /\ Truthy(argv.messageFile)
  /\ pc' = "readMessageFile"
  /\ UNCHANGED <<argv, input, message, recipients, i,
                 attempts, log, timerPending, rejection, delayFired, cancelRequested>>

\* The else branch of lines 233-236 without its process.exit(1), going on to
\* sendEmails as the other two branches do.
MainNoMessageNoExit ==
  /\ pc = "main"
  /\ ~Truthy(OrElse(argv.m, Null))
  /\ ~Truthy(argv.messageFile)
  /\ log' = Append(log, Line("noMessage", <<>>))
  /\ pc' = "sendEmails"
  /\ UNCHANGED <<argv, input, message, recipients, i, attempts,
                 timerPending, rejection, delayFired, cancelRequested>>

\* lines 233-236: neither: process.exit(1).
MainNoMessage ==
  /\ pc = "main"
  /\ ~Truthy(OrElse(argv.m, Null))
  /\ ~Truthy(argv.messageFile)
  /\ log' = Append(log, Line("noMessage", <<>>))
  /\ pc' = "exit1"
  /\ UNCHANGED <<argv, input, message, recipients, i,
                 attempts, timerPending, rejection, delayFired, cancelRequested>>

\* lines 224-227: the readFile callback with err.
MessageFileError ==
  /\ pc = "readMessageFile"
  /\ log' = Append(log, Line("messageFileError", <<>>))
  /\ pc' = "exit1"
  /\ UNCHANGED <<argv, input, message, recipients, i,
                 attempts, timerPending, rejection, delayFired, cancelRequested>>

\* lines 228-231: the readFile callback with the file's content.
MessageFileLoaded ==
  /\ pc = "readMessageFile"
  /\ \E content \in MessageFileContents : message' = content
  /\ pc' = "sendEmails"
  /\ UNCHANGED <<argv, input, recipients, i, attempts,
                 log, timerPending, rejection, delayFired, cancelRequested>>

\* ------------------------------------------------------ sendEmails 97-123
\* sendEmails runs synchronously from its entry to its first await; the steps
\* below that follow one another with nothing in flight (entry, loop head) are
\* parts of one such run, split at the points the pc names.

\* lines 101-102: a single address is given.
SendEmailsSingle ==
  /\ pc = "sendEmails"
  /\ TruthyS(argv.email)
  /\ recipients' = <<Trim(argv.email)>>
  /\ i' = 1
  /\ pc' = "loop"
  /\ UNCHANGED <<argv, input, message, attempts, log, timerPending, rejection, delayFired,
            cancelRequested>>

\* lines 104-110: the extension selects the reader, which is awaited.
SendEmailsOpenFile ==
  /\ pc = "sendEmails"
  /\ ~TruthyS(argv.email)
  /\ argv.targets # UndefS
  /\ ExtName(argv.targets) \in {ExtTxt, ExtCsv, ExtJson}
  /\ pc' = CASE ExtName(argv.targets) = ExtTxt -> "readTxt"
             [] ExtName(argv.targets) = ExtCsv -> "readCsv"
             [] ExtName(argv.targets) = ExtJson -> "readJson"
  /\ UNCHANGED <<argv, input, message, recipients, i,
                 attempts, log, timerPending, rejection, delayFired, cancelRequested>>

\* lines 111-114: any other extension: a console line and a plain return.
SendEmailsUnsupported ==
  /\ pc = "sendEmails"
  /\ ~TruthyS(argv.email)
  /\ argv.targets # UndefS
  /\ ExtName(argv.targets) \notin {ExtTxt, ExtCsv, ExtJson}
  /\ log' = Append(log, Line("unsupported", <<>>))
  /\ pc' = "resolved"
  /\ UNCHANGED <<argv, input, message, recipients, i,
                 attempts, timerPending, rejection, delayFired, cancelRequested>>

\* line 104 with targetFilePath undefined: path.extname throws a TypeError,
\* which rejects the promise sendEmails returned.
SendEmailsNoPath ==
  /\ pc = "sendEmails"
  /\ ~TruthyS(argv.email)
  /\ argv.targets = UndefS
  /\ pc' = "rejected"
  /\ rejection' = "TypeError: path"
  /\ UNCHANGED <<argv, input, message, recipients, i, attempts, log, timerPending, delayFired,
            cancelRequested>>

\* A reader's promise rejects (lines 130, 154, 164, 170): the await of lines
\* 106-110 throws and sendEmails rejects; nobody catches it.
ReaderRejects(reason, given) ==
  /\ pc' = "rejected"
  /\ rejection' = reason
  /\ input' = given
  /\ UNCHANGED <<argv, message, recipients, i, attempts, log, timerPending, delayFired,
            cancelRequested>>

\* A reader's promise resolves with rs: lines 106-110 assign recipients.
ReaderResolves(rs, given) ==
  /\ recipients' = rs
  /\ input' = given
  /\ i' = 1
  /\ pc' = "loop"
  /\ UNCHANGED <<argv, message, attempts, log, timerPending, rejection, delayFired, cancelRequested>>

\* readEmailsFromTxt 126-137.
ReadTxtError == pc = "readTxt" /\ ReaderRejects("Error reading file", Input("ioError", <<>>))
ReadTxtDone == pc = "readTxt" /\ \E data \in TxtData : ReaderResolves(ParseTxt(data), Input("txt", data))

\* readEmailsFromCsv 140-157.
ReadCsvError == pc = "readCsv" /\ ReaderRejects("Error reading CSV file", Input("ioError", <<>>))
ReadCsvEnd == pc = "readCsv" /\ \E rows \in CsvRows : ReaderResolves(ParseCsv(rows), Input("csv", rows))

\* readEmailsFromJson 160-175: a read error, a parse/TypeError caught at 169,
\* or the list.
ReadJsonError == pc = "readJson" /\ ReaderRejects("Error reading file", Input("ioError", <<>>))
ReadJsonThrows ==
  /\ pc = "readJson"
  /\ \E doc \in JsonDocs :
       JsonThrows(doc) /\ ReaderRejects("Error parsing JSON", Input("json", doc))
ReadJsonDone ==
  /\ pc = "readJson"
  /\ \E doc \in JsonDocs : ~JsonThrows(doc) /\ ReaderResolves(ParseJson(doc), Input("json", doc))

\* ------------------------------------------------- the two passes 117-122

N == Len(recipients)

\* A sendEmail that keeps one mailOptions object for all calls and pushes the
\* attachment onto it at every call (lines 185 and 200-204 on shared state).
AttemptSharedOptions(e, pass, paced) ==
  [entry |-> e, pass |-> pass, status |-> "inflight", paced |-> paced,
   mail |-> [MailOptions(argv, Trim(recipients[e]), argv.subject, message, isHtml)
               EXCEPT !.attachments =
                 IF Truthy(argv.attachment)
                 THEN [k \in 1..(Len(attempts) + e) |-> argv.attachment]
                 ELSE <<>>]]

\* sendEmail lines 178-207 for list entry e: mailOptions is built and
\* transporter.sendMail is called; the call is now in flight.
Attempt(e, pass, paced) ==
  [entry |-> e, pass |-> pass, status |-> "inflight", paced |-> paced,
   mail |-> MailOptions(argv, Trim(recipients[e]), argv.subject, message, isHtml)]

InFlight == {k \in 1..Len(attempts) : attempts[k].status = "inflight"}

\* lines 117-118: the next list entry: sendEmail is called and awaited.
LoopSend ==
  /\ pc = "loop"
  /\ i <= N
  /\ attempts' = Append(attempts, Attempt(i, "seq", delayFired))
  /\ delayFired' = FALSE
  /\ pc' = "awaitSend"
  /\ input' = NoInput
  /\ UNCHANGED <<argv, message, recipients, i, log, timerPending, rejection, cancelRequested>>

\* A sendEmails that ends with the loop (no line 122).
LoopExitNoSecondPass ==
  /\ pc = "loop"
  /\ i > N
  /\ pc' = "resolved"
  /\ input' = NoInput
  /\ UNCHANGED <<argv, message, recipients, i, attempts, log, timerPending, rejection,
                 delayFired, cancelRequested>>

\* A second pass that is done when the last of its calls settles and so, for
\* an empty list, never (a completion counter in the place of Promise.all).
LoopExitEmptyNeverResolves ==
  /\ pc = "loop"
  /\ i > N
  /\ attempts' = attempts \o [e \in 1..N |-> Attempt(e, "par", e = 1 /\ delayFired)]
  /\ delayFired' = (N = 0 /\ delayFired)
  /\ pc' = "awaitAll"
  /\ input' = NoInput
  /\ UNCHANGED <<argv, message, recipients, i, log, timerPending, rejection,
                 cancelRequested>>

\* lines 117 and 122: the list is exhausted: recipients.map calls sendEmail for
\* every entry, in order, in one synchronous run, and Promise.all awaits them
\* all (resolving at once for an empty list).
LoopExit ==
  /\ pc = "loop"
  /\ i > N
  /\ attempts' = attempts \o [e \in 1..N |-> Attempt(e, "par", e = 1 /\ delayFired)]
  /\ delayFired' = (N = 0 /\ delayFired)
  /\ pc' = IF N = 0 THEN "resolved" ELSE "awaitAll"
  /\ input' = NoInput
  /\ UNCHANGED <<argv, message, recipients, i, log, timerPending, rejection, cancelRequested>>

\* A second pass that is done with the first call to settle (Promise.race in
\* the place of Promise.all at line 122).
AfterSendEmailFirstSettles(k) ==
  IF attempts[k].pass = "seq"
  THEN /\ pc' = "awaitDelay"
       /\ timerPending' = TRUE
  ELSE /\ pc' = "resolved"
       /\ UNCHANGED timerPending

\* What follows sendEmail's return for attempt k: in the loop, line 119 arms
\* the 500 ms timer; in the second pass, Promise.all resolves with the last one.
AfterSendEmail(k) ==
  IF attempts[k].pass = "seq"
  THEN /\ pc' = "awaitDelay"
       /\ timerPending' = TRUE
  ELSE /\ pc' = IF InFlight = {k} THEN "resolved" ELSE "awaitAll"
       /\ UNCHANGED timerPending

\* lines 207-208: sendMail resolves.
SendMailResolves(k) ==
  /\ attempts[k].status = "inflight"
  /\ attempts' = [attempts EXCEPT ![k].status = "sent"]
  /\ log' = Append(log, Line("sent", attempts[k].mail.to))
  /\ AfterSendEmail(k)
  /\ UNCHANGED <<argv, input, message, recipients, i, delayFired, rejection, cancelRequested>>

\* A sendEmail without the try/catch of lines 206-211: the rejection leaves
\* sendEmail and rejects sendEmails.
SendMailRejectsUncaught(k) ==
  /\ attempts[k].status = "inflight"
  /\ attempts' = [attempts EXCEPT ![k].status = "failed"]
  /\ pc' = "rejected"
  /\ rejection' = "sendMail error"
  /\ UNCHANGED <<argv, input, message, recipients, i, log, timerPending, delayFired,
            cancelRequested>>

\* lines 209-211: sendMail rejects: the catch logs and sendEmail returns.
SendMailRejects(k) ==
  /\ attempts[k].status = "inflight"
  /\ attempts' = [attempts EXCEPT ![k].status = "failed"]
  /\ log' = Append(log, Line("sendError", attempts[k].mail.to))
  /\ AfterSendEmail(k)
  /\ UNCHANGED <<argv, input, message, recipients, i, delayFired, rejection, cancelRequested>>

\* line 119: the timer fires: the loop moves to the next entry.
TimerFires ==
  /\ pc = "awaitDelay"
  /\ timerPending
  /\ timerPending' = FALSE
  /\ delayFired' = TRUE
  /\ i' = i + 1
  /\ pc' = "loop"
  /\ UNCHANGED <<argv, input, message, recipients, attempts, log, rejection, cancelRequested>>

\* The request of the specification's section 5 to cancel the run, made at any
\* time while the script runs. main.js registers no handler and tests no flag.
RequestCancel ==
  /\ ~cancelRequested
  /\ pc \notin {"resolved", "rejected", "exit1"}
  /\ cancelRequested' = TRUE
  /\ UNCHANGED <<argv, pc, message, recipients, i, attempts, log, timerPending, input,
                 rejection, delayFired>>

Next ==
  \/ MainMessage
  \/ MainMessageFile
  \/ MainNoMessage
  \/ MessageFileError
  \/ MessageFileLoaded
  \/ SendEmailsSingle
  \/ SendEmailsOpenFile
  \/ SendEmailsUnsupported
  \/ SendEmailsNoPath
  \/ ReadTxtError
  \/ ReadTxtDone
  \/ ReadCsvError
  \/ ReadCsvEnd
  \/ ReadJsonError
  \/ ReadJsonThrows
  \/ ReadJsonDone
  \/ LoopSend
  \/ LoopExit
  \/ \E k \in 1..Len(attempts) : SendMailResolves(k)
  \/ \E k \in 1..Len(attempts) : SendMailRejects(k)
  \/ TimerFires
  \/ RequestCancel

Spec == Init /\ [][Next]_vars

\* A step of the script itself: Node runs every callback that is due, and the
\* claims about progress take every sendMail call to settle, every timer to
\* fire and every read to end.
ScriptStep == Next /\ UNCHANGED cancelRequested

FairSpec == Init /\ [][Next]_vars /\ WF_vars(ScriptStep)

\* ----------------------------------------------------------- the claims

\* The sendMail calls made for list entry e.
AttemptsOf(e) == {k \in 1..Len(attempts) : attempts[k].entry = e}

Settled(k) == attempts[k].status \in {"sent", "failed"}

\* The per-recipient console records ('Email sent to' / 'Error sending email to').
Outcomes == SelectSeq(log, LAMBDA l : l.kind \in {"sent", "sendError"})

\* The list as sendEmail receives it (line 118 trims each entry).
ToList == [e \in 1..N |-> Trim(recipients[e])]

\* C1: in one run every list entry is attempted exactly once: never more than
\* one sendMail call per entry (so a failed entry is not attempted again), and
\* when sendEmails has returned each entry has exactly one, settled, attempt.
C1_OneAttemptPerEntry ==
  /\ \A e \in 1..N : Cardinality(AttemptsOf(e)) <= 1
  /\ pc = "resolved" =>
       \A e \in 1..N : Cardinality(AttemptsOf(e)) = 1 /\ \A k \in AttemptsOf(e) : Settled(k)

\* C2: the recorded per-recipient outcomes are exactly N, in list order: never
\* more than N records, and when sendEmails has returned their recipients are
\* the recipient list.
C2_ReportInListOrder ==
  /\ Len(Outcomes) <= N
  /\ pc = "resolved" => [k \in 1..Len(Outcomes) |-> Outcomes[k].to] = ToList

\* C3: a transport failure is recipient-scoped: sendEmails never rejects once
\* an attempt was made; every failed attempt has its 'Error sending email to'
\* record; straight after a failure in the loop the loop goes on (the delay is
\* armed, then the next entry is due); and when sendEmails has returned, every
\* entry after a failed one has been attempted.
C3_FailureIsRecipientScoped ==
  /\ attempts # <<>> => pc # "rejected" /\ rejection = Null
  /\ Cardinality({k \in 1..Len(attempts) : attempts[k].status = "failed"})
       = Len(SelectSeq(log, LAMBDA l : l.kind = "sendError"))
  /\ \A k \in 1..Len(attempts) :
       attempts[k].status = "failed" =>
         /\ \E j \in 1..Len(log) : log[j] = Line("sendError", attempts[k].mail.to)
         /\ (k = Len(attempts) /\ attempts[k].pass = "seq") =>
              \/ pc = "awaitDelay" /\ timerPending
              \/ pc = "loop" /\ i = attempts[k].entry + 1
         /\ pc = "resolved" =>
              \A e \in (attempts[k].entry + 1)..N :
                \E j \in AttemptsOf(e) : j > k /\ attempts[j].pass = attempts[k].pass

\* C3 witness: sendEmails has returned, the loop's attempt for some entry
\* failed, and the loop's attempt for the next entry was made after it.
C3_Witness ==
  /\ pc = "resolved"
  /\ \E k \in 1..Len(attempts) :
       /\ attempts[k].status = "failed"
       /\ attempts[k].pass = "seq"
       /\ attempts[k].entry < N
       /\ \E j \in AttemptsOf(attempts[k].entry + 1) : j > k /\ attempts[j].pass = "seq"

\* C4: at most one sendMail call is in flight at any time.
C4_AtMostOneInFlight == Cardinality(InFlight) <= 1

\* C5: every sendMail call after the first is made after a line-119 timer has
\* fired since the previous call.
C5_DelayBetweenStarts == \A k \in 2..Len(attempts) : attempts[k].paced

\* C6: the sendMail calls are made in list order and are exactly the list: the
\* k-th call is for the k-th entry, and when sendEmails has returned there are
\* N of them.
C6_StartsInListOrder ==
  /\ \A k \in 1..Len(attempts) : attempts[k].entry = k
  /\ \A j, k \in 1..Len(attempts) : j < k => attempts[j].entry <= attempts[k].entry
  /\ pc = "resolved" => Len(attempts) = N

\* C7: every message handed to sendMail has the body of the other content mode
\* null and the body of the active mode set (never both non-empty); the active
\* body is non-empty whenever the message is non-empty or a link is configured.
C7_BodiesMutuallyExclusive ==
  \A k \in 1..Len(attempts) :
    LET mail == attempts[k].mail
        active == IF argv.type = "html" THEN mail.html ELSE mail.text
        other == IF argv.type = "html" THEN mail.text ELSE mail.html
    IN /\ ~(Truthy(mail.text) /\ Truthy(mail.html))
       /\ other = Null
       /\ active # Null
       /\ (message # "" \/ argv.link \notin {Undefined, ""}) => active # ""

\* C7 witness: a message was handed to sendMail in html mode with a link and a
\* link text configured.
C7_Witness ==
  /\ attempts # <<>>
  /\ argv.type = "html"
  /\ argv.link = "https://x.com"
  /\ argv.linkText = "here"
  /\ attempts[1].mail.html # Null

\* C8: with a link configured the body handed to sendMail is, in html mode,
\* <p>{base}</p><p>Link: <a href="{url}">{displayText}</a></p> with displayText
\* the link text, or the url when no (or an empty) link text is given; in text
\* mode {base}\nLink: {url}. The two examples of the specification are spelled out.
C8_LinkBodyMatchesReference ==
  \A k \in 1..Len(attempts) :
    LET mail == attempts[k].mail
        url == argv.link
        shown == IF argv.linkText \in {Undefined, ""} THEN url ELSE argv.linkText
    IN url \notin {Undefined, ""} =>
         /\ argv.type = "html" =>
              mail.html = "<p>" \o message \o "</p><p>Link: <a href=\"" \o url \o "\">"
                          \o shown \o "</a></p>"
         /\ argv.type = "text" => mail.text = message \o "\nLink: " \o url
         /\ (message = "Hi" /\ url = "https://x.com" /\ argv.linkText = Undefined) =>
              /\ argv.type = "html" =>
                   /\ mail.html = "<p>Hi</p><p>Link: <a href=\"https://x.com\">https://x.com</a></p>"
                   /\ mail.text = Null
              /\ argv.type = "text" =>
                   /\ mail.text = "Hi\nLink: https://x.com"
                   /\ mail.html = Null

\* C8 witness: the specification's html example was handed to sendMail: base
\* message Hi, link https://x.com, no link text.
C8_Witness ==
  /\ attempts # <<>>
  /\ argv.type = "html"
  /\ message = "Hi"
  /\ argv.link = "https://x.com"
  /\ argv.linkText = Undefined

\* C9: a .json array holding objects without an email field loads: the reader
\* does not reject, and recipients are the trimmed non-empty emails of the
\* objects that have one.
C9_JsonMissingEmailSkipped ==
  (input.kind = "json" /\ input.value.kind = "array") =>
    LET kept == SelectSeq(input.value.items,
                          LAMBDA it : it.email # UndefS /\ Trim(it.email) # <<>>)
    IN /\ pc # "rejected"
       /\ recipients = [k \in 1..Len(kept) |-> Trim(kept[k].email)]

\* C10: no entry of the recipient list is empty or whitespace-only, and
\* sendMail is never called with an empty 'to'.
C10_NoEmptyRecipient ==
  /\ \A e \in 1..N : Trim(recipients[e]) # <<>>
  /\ \A k \in 1..Len(attempts) : attempts[k].mail.to # <<>>

\* The trimmed, non-empty values among a file's email values, in file order
\* (a value that occurs k times is kept k times).
TrimmedNonEmpty(values) ==
  LET kept == SelectSeq(values, LAMBDA v : v # UndefS /\ Trim(v) # <<>>)
  IN [k \in 1..Len(kept) |-> Trim(kept[k])]

\* C11: for each format the reader returns exactly the trimmed non-empty email
\* values of the file, in file order, duplicates kept: the lines of a .txt
\* file, the email values of the rows of a .csv file, the email values of the
\* elements of a .json array.
C11_LoadReturnsTrimmedValues ==
  /\ input.kind = "txt" => recipients = TrimmedNonEmpty(SplitLines(input.value))
  /\ input.kind = "csv" =>
       recipients = TrimmedNonEmpty([k \in 1..Len(input.value) |-> input.value[k].email])
  /\ (input.kind = "json" /\ input.value.kind = "array") =>
       recipients = TrimmedNonEmpty([k \in 1..Len(input.value.items) |->
                                       input.value.items[k].email])

\* C12: a fatal error aborts before any send: when sendEmails has rejected (a
\* reader failed: read error, malformed csv/json), or the process has exited
\* (no message given, message file unreadable), or the unsupported-format line
\* was printed, no sendMail call has been made.
C12_FatalErrorsAbortBeforeSend ==
  ( \/ pc \in {"rejected", "exit1"}
    \/ \E j \in 1..Len(log) : log[j].kind \in {"unsupported", "noMessage", "messageFileError"} )
  => attempts = <<>>

\* C12 witness: the csv reader failed and sendEmails has rejected.
C12_Witness == pc = "rejected" /\ rejection = "Error reading CSV file"

\* The targets paths of the model whose extension is none of .txt, .csv, .json:
\* r.xml, r, .txt (a dot-file) and d.txt/r.
UnsupportedPaths ==
  { <<"r", ".", "x", "m", "l">>, <<"r">>, <<".", "t", "x", "t">>,
    <<"d", ".", "t", "x", "t", "/", "r">> }

\* C13: with no single address and a targets path of another extension, no
\* reader is ever started and nothing is read; once sendEmails has run it has
\* returned with the unsupported-format line as its only output, an empty list
\* and no sendMail call.
C13_UnsupportedFormatReadsNothing ==
  (~TruthyS(argv.email) /\ argv.targets \in UnsupportedPaths) =>
    /\ pc \notin {"readTxt", "readCsv", "readJson", "loop"}
    /\ input = NoInput
    /\ pc \notin {"main", "readMessageFile", "sendEmails", "exit1"} =>
         /\ pc = "resolved"
         /\ log = <<Line("unsupported", <<>>)>>
         /\ recipients = <<>>
         /\ attempts = <<>>

\* C13 witness: sendEmails has returned for the dot-file .txt with the
\* unsupported-format line printed.
C13_Witness ==
  /\ argv.targets = <<".", "t", "x", "t">>
  /\ argv.email = UndefS
  /\ pc = "resolved"
  /\ log = <<Line("unsupported", <<>>)>>

\* A message without its 'to'.
Content(mail) ==
  [from |-> mail.from, subject |-> mail.subject, text |-> mail.text, html |-> mail.html,
   attachments |-> mail.attachments]

\* C14: within one run any two messages handed to sendMail carry the same
\* from, subject, text, html and attachments (they differ at most in 'to'),
\* and these are fixed by the configuration: from is the spoof name (or Sender)
\* with the account, subject is argv.subject, and there is one attachment, the
\* configured path, or none.
C14_MessageSameForAllRecipients ==
  /\ \A j, k \in 1..Len(attempts) : Content(attempts[j].mail) = Content(attempts[k].mail)
  /\ \A k \in 1..Len(attempts) :
       /\ attempts[k].mail.from =
            (IF argv.spoofName \in {Undefined, ""} THEN "Sender" ELSE argv.spoofName)
            \o " <user@x>"
       /\ attempts[k].mail.subject = argv.subject
       /\ attempts[k].mail.attachments =
            (IF argv.attachment \in {Undefined, ""} THEN <<>> ELSE <<argv.attachment>>)

\* C14 witness: two messages with an attachment and a spoof name were handed
\* to sendMail for the same recipient.
C14_Witness ==
  /\ Len(attempts) >= 2
  /\ argv.attachment = "a.pdf"
  /\ argv.spoofName = "Boss"
  /\ attempts[1].mail.to = attempts[2].mail.to

\* C14 second case: messages for two different recipients were handed to
\* sendMail.
C14_WitnessTwoRecipients ==
  \E j, k \in 1..Len(attempts) : attempts[j].mail.to # attempts[k].mail.to

\* C15: once cancellation is requested no further sendMail call is made (and a
\* call in flight is left to settle).
C15_NoAttemptAfterCancel ==
  [][cancelRequested =>
       /\ Len(attempts') = Len(attempts)
       /\ \A k \in 1..Len(attempts) :
            attempts'[k].status = attempts[k].status \/ attempts[k].status = "inflight"]_vars

\* The sendMail calls of the loop (lines 117-120) and of line 122.
SeqAttempts == {k \in 1..Len(attempts) : attempts[k].pass = "seq"}
ParAttempts == {k \in 1..Len(attempts) : attempts[k].pass = "par"}

\* C16: sendEmails makes two passes over the list: the calls of the loop come
\* first, one per entry in order; when a call of the second pass exists, all N
\* calls of the loop have settled, the last delay has fired before the first
\* of them (and its timer is no longer armed), and the second pass holds one
\* call per entry, in order; when sendEmails has returned there are 2N calls.
C16_TwoPasses ==
  /\ \A k \in SeqAttempts : attempts[k].entry = k /\ k <= N
  /\ ParAttempts # {} =>
       /\ SeqAttempts = 1..N
       /\ ParAttempts = (N + 1)..(2 * N)
       /\ \A k \in SeqAttempts : Settled(k)
       /\ \A k \in ParAttempts : attempts[k].entry = k - N
       /\ attempts[N + 1].paced
       /\ ~timerPending
       /\ i = N + 1
  /\ pc = "resolved" => Len(attempts) = 2 * N

\* C16 witness: sendEmails has returned for a list of at least two entries,
\* with two calls per entry.
C16_Witness ==
  /\ pc = "resolved"
  /\ N >= 2
  /\ \A e \in 1..N : Cardinality(AttemptsOf(e)) = 2

\* C17: when sendEmails has returned nothing is pending or in flight: every
\* entry has been attempted, every sendMail call made has settled and has its
\* record, and no timer is armed; and from then on no call is made and no
\* record is added.
C17_ResolvesWhenAllSettled ==
  /\ [](pc = "resolved" =>
          /\ InFlight = {}
          /\ \A e \in 1..N : AttemptsOf(e) # {}
          /\ \A k \in 1..Len(attempts) : Settled(k)
          /\ Len(Outcomes) = Len(attempts)
          /\ ~timerPending)
  /\ [][pc = "resolved" => pc' = "resolved" /\ attempts' = attempts /\ log' = log]_vars

\* C17 witness: sendEmails has returned after a second pass of at least two
\* calls, the last of which failed.
C17_Witness ==
  /\ pc = "resolved"
  /\ Cardinality(ParAttempts) >= 2
  /\ log[Len(log)].kind = "sendError"

\* C18: under fairness, from the moment sendEmails holds its recipient list
\* (empty or not), whatever calls fail, sendEmails eventually returns with
\* every list entry attempted.
C18_EveryEntryAttemptedAndCompletes ==
  (pc = "loop") ~> (pc = "resolved" /\ \A e \in 1..N : AttemptsOf(e) # {})

\* C18 witness: sendEmails has returned for the empty list of a .txt file.
C18_Witness ==
  /\ pc = "resolved"
  /\ argv.targets = <<"r", ".", "t", "x", "t">>
  /\ N = 0
  /\ log = <<>>

\* C18 second case: sendEmails has returned for three entries after failures
\* in both passes.
C18_WitnessFailures ==
  /\ pc = "resolved"
  /\ N = 3
  /\ \E j \in SeqAttempts, k \in ParAttempts :
       attempts[j].status = "failed" /\ attempts[k].status = "failed"

====
